---- MODULE Spec2Model ----
(***************************************************************************)
(* Model of the two browser automation scripts of platonus:                *)
(*   script1.py  WebDriverManager + BrowserAutomation (search, wait,       *)
(*               scroll) + main                                            *)
(*   script2.py  WebDriverManager + BrowserAutomation.login_platonus + main*)
(* The selenium driver is the environment: each call on it ends the way    *)
(* the environment chooses (it returns, it raises, the browser dies).      *)
(* Spec    : one execution of main() of either script.                     *)
(* SpecApi : a client that constructed a WebDriverManager and calls its    *)
(*           methods with arbitrary arguments.                             *)
(* SpecAll : both of them.                                                 *)
(* SpecFair: Spec with the fairness of a single thread that runs on.       *)
(***************************************************************************)
EXTENDS Integers, Sequences, FiniteSets, TLC

VARIABLES
  script,    \* 1 = script1.py, 2 = script2.py
  pc,        \* position of the running program
  driver,    \* the browser behind self.driver
  exc,       \* the exception propagating right now (NoExc when none)
  log,       \* records emitted through logging, in order
  trace,     \* calls made on WebDriverManager and on the selenium driver, in order
  flow,      \* state of the login flow (spec.md 4.2), set where the code reaches it
  flowOut,   \* how the flow called by main ended
  detected,  \* history: the latest error, as it was where it was first raised
  mainOut,   \* how main ended
  last,      \* SpecApi: the latest method call, its argument and its result
  nCalls,    \* SpecApi: number of method calls made
  elapsed    \* time units the WebDriverWait in progress has been polling

vars == <<script, pc, driver, exc, log, trace, flow, flowOut, detected, mainOut, last, nCalls, elapsed>>

----------------------------------------------------------------------------
(* Bounds *)

MaxApiCalls == 3

----------------------------------------------------------------------------
(* Python values: a type tag, the characters of a str, a number in 1/1000 *)

PyStr(s) == [t |-> "str", s |-> s, ms |-> 0]
PyInt(n) == [t |-> "int", s |-> <<>>, ms |-> n * 1000]
PyFloatMs(ms) == [t |-> "float", s |-> <<>>, ms |-> ms]
PyBool(b) == [t |-> "bool", s |-> <<>>, ms |-> IF b THEN 1000 ELSE 0]
PyNone == [t |-> "NoneType", s |-> <<>>, ms |-> 0]

\* str.startswith(p)
StartsWith(s, p) == Len(s) >= Len(p) /\ SubSeq(s, 1, Len(p)) = p

\* p in s
Contains(s, p) == \E i \in 1..(Len(s) - Len(p) + 1) : SubSeq(s, i, i + Len(p) - 1) = p

\* isinstance(v, str)
IsStr(v) == v.t = "str"

\* isinstance(v, (int, float)); bool is a subclass of int
IsIntOrFloat(v) == v.t \in {"int", "float", "bool"}

Http == <<"h","t","t","p">>

PortalUrl == <<"h","t","t","p","s",":","/","/","p","l","a","t","o","n","u","s",".","i","i","t","u",".","e","d","u",".","k","z","/">>

DashboardPath == <<"/","d","a","s","h","b","o","a","r","d">>

GoogleSearchPrefix == <<"h","t","t","p","s",":","/","/","w","w","w",".","g","o","o","g","l","e",".","c","o","m","/","s","e","a","r","c","h","?","q","=">>

OpenAIQuery == <<"O","p","e","n","A","I">>

BlankPage == <<"d","a","t","a",":",",">>

----------------------------------------------------------------------------
(* Exceptions and log records *)

Err(type, site) == [type |-> type, site |-> site]

NoExc == Err("None", "None")

LogRec(logger, level, msg, e) == [logger |-> logger, level |-> level, msg |-> msg, e |-> e]

Info(logger, msg) == LogRec(logger, "INFO", msg, NoExc)

Error(logger, msg, e) == LogRec(logger, "ERROR", msg, e)

Call(name, out) == [call |-> name, out |-> out]

\* the result of one method: the driver after it, the exception it raises,
\* the error as first raised inside it, what it logged and what it called
Result(d, e, det, l, t) == [driver |-> d, exc |-> e, det |-> det, log |-> l, trace |-> t]

----------------------------------------------------------------------------
(* The selenium driver (environment) *)

\* how a call on the driver can end: it returns ("ok"), it raises and the
\* session stays ("fail"), it raises because the browser is gone ("crash")
Outcomes(d) == IF d.state = "live" THEN {"ok", "fail", "crash"} ELSE {"fail"}

\* driver.quit() on a session that is closed or dead returns or raises,
\* as the driver library decides
QuitOutcomes(d) == {"ok", "fail"}

AfterCall(d, out) == IF out = "crash" THEN [d EXCEPT !.state = "dead"] ELSE d

\* driver.get(url)
DriverGet(d, url, out) ==
  IF out = "ok" THEN [d EXCEPT !.location = url] ELSE AfterCall(d, out)

\* driver.implicitly_wait(seconds)
DriverImplicitlyWait(d, ms, out) ==
  IF out = "ok" THEN [d EXCEPT !.implicit = ms] ELSE AfterCall(d, out)

\* driver.quit()
DriverQuit(d, out) ==
  IF out = "ok" THEN [d EXCEPT !.state = "quit"]
  ELSE IF d.state = "live" THEN [d EXCEPT !.state = "dead"] ELSE d

\* variant: an except clause that logs and ends without `raise`
Reraise_Swallows(e) == NoExc

\* the `raise` that ends every except clause: the caught exception goes on unchanged
Reraise(e) == e

----------------------------------------------------------------------------
(* WebDriverManager *)

\* variant: the prefix tested is 'https'
UrlAccepted_HttpsOnly(url) == IsStr(url) /\ StartsWith(url.s, Http \o <<"s">>)

\* the test of open_url that lets a url through to driver.get
UrlAccepted(url) == IsStr(url) /\ StartsWith(url.s, Http)

\* WebDriverManager.open_url(url)
open_url(d, url, out) ==
  IF ~UrlAccepted(url)
  THEN LET e == Err("ValueError", "open_url") IN
       Result(d, Reraise(e), e,
              <<Error("WebDriverManager", "Error opening URL: %s", e)>>,
              <<Call("open_url", "call")>>)
  ELSE IF out = "ok"
  THEN Result(DriverGet(d, url.s, out), NoExc, NoExc,
              <<Info("WebDriverManager", "Opened URL: %s")>>,
              <<Call("open_url", "call"), Call("driver.get", out)>>)
  ELSE LET e == Err("WebDriverException", "driver.get") IN
       Result(DriverGet(d, url.s, out), Reraise(e), e,
              <<Error("WebDriverManager", "Error opening URL: %s", e)>>,
              <<Call("open_url", "call"), Call("driver.get", out)>>)

\* variant: the comparison is `seconds <= 0`
SecondsAccepted_Positive(seconds) == IsIntOrFloat(seconds) /\ ~(seconds.ms <= 0)

\* the test of wait that lets a duration through to driver.implicitly_wait
SecondsAccepted(seconds) == IsIntOrFloat(seconds) /\ ~(seconds.ms < 0)

\* WebDriverManager.wait(seconds), script1.py only
wait(d, seconds, out) ==
  IF ~SecondsAccepted(seconds)
  THEN LET e == Err("ValueError", "wait") IN
       Result(d, Reraise(e), e,
              <<Error("WebDriverManager", "Error during wait: %s", e)>>,
              <<Call("wait", "call")>>)
  ELSE IF out = "ok"
  THEN Result(DriverImplicitlyWait(d, seconds.ms, out), NoExc, NoExc,
              <<Info("WebDriverManager", "Implicit wait for %s seconds.")>>,
              <<Call("wait", "call"), Call("driver.implicitly_wait", out)>>)
  ELSE LET e == Err("WebDriverException", "driver.implicitly_wait") IN
       Result(DriverImplicitlyWait(d, seconds.ms, out), Reraise(e), e,
              <<Error("WebDriverManager", "Error during wait: %s", e)>>,
              <<Call("wait", "call"), Call("driver.implicitly_wait", out)>>)

\* WebDriverManager.quit_driver()
quit_driver(d, out) ==
  IF out = "ok"
  THEN Result(DriverQuit(d, out), NoExc, NoExc,
              <<Info("WebDriverManager", "WebDriver quit successfully.")>>,
              <<Call("quit_driver", "call"), Call("driver.quit", out)>>)
  ELSE LET e == Err("WebDriverException", "driver.quit") IN
       Result(DriverQuit(d, out), Reraise(e), e,
              <<Error("WebDriverManager", "Error quitting WebDriver: %s", e)>>,
              <<Call("quit_driver", "call"), Call("driver.quit", out)>>)

\* WebDriverManager.execute_script(script, *args)
execute_script(d, out) ==
  IF out = "ok"
  THEN Result(d, NoExc, NoExc,
              <<Info("WebDriverManager", "Executed script: %s")>>,
              <<Call("execute_script", "call"), Call("driver.execute_script", out)>>)
  ELSE LET e == Err("WebDriverException", "driver.execute_script") IN
       Result(AfterCall(d, out), Reraise(e), e,
              <<Error("WebDriverManager", "Error executing script: %s", e)>>,
              <<Call("execute_script", "call"), Call("driver.execute_script", out)>>)

----------------------------------------------------------------------------
(* BrowserAutomation, script1.py *)

\* a flow's own except clause around the one call it makes: log, re-raise
FlowHandler(r, okMsg, errMsg) ==
  IF r.exc = NoExc
  THEN [r EXCEPT !.log = @ \o <<Info("BrowserAutomation", okMsg)>>]
  ELSE [r EXCEPT !.exc = Reraise(r.exc),
                 !.log = @ \o <<Error("BrowserAutomation", errMsg, r.exc)>>]

\* BrowserAutomation.perform_google_search(query)
perform_google_search(d, query, out) ==
  FlowHandler(open_url(d, PyStr(GoogleSearchPrefix \o query), out),
              "Performed Google search for query: %s",
              "Error performing Google search: %s")

\* BrowserAutomation.scroll_to_bottom()
scroll_to_bottom(d, out) ==
  FlowHandler(execute_script(d, out),
              "Scrolled to bottom of the page.",
              "Error scrolling to bottom: %s")

----------------------------------------------------------------------------
(* BrowserAutomation.login_platonus, script2.py *)

\* how WebDriverWait(driver, 10).until(condition) can end
UntilOutcomes(d) == IF d.state = "live" THEN {"ok", "timeout", "fail", "crash"} ELSE {"fail"}

\* what until raises when it does not return the element
UntilError(waitCall, o1) ==
  IF o1 = "timeout" THEN Err("TimeoutException", waitCall)
  ELSE Err("WebDriverException", waitCall)

\* WebDriverWait(...).until(condition).act(...): the wait, then the action on
\* the element it returned; nothing here catches, the error leaves both
WaitThen(d, waitCall, actCall, o1, o2) ==
  IF o1 # "ok"
  THEN Result(AfterCall(d, o1), UntilError(waitCall, o1), UntilError(waitCall, o1),
              <<>>, <<Call(waitCall, o1)>>)
  ELSE IF o2 # "ok"
  THEN Result(AfterCall(d, o2), Err("WebDriverException", actCall),
              Err("WebDriverException", actCall),
              <<>>, <<Call(waitCall, o1), Call(actCall, o2)>>)
  ELSE Result(d, NoExc, NoExc, <<>>, <<Call(waitCall, o1), Call(actCall, o2)>>)

\* where the browser can be once the login form was submitted
PostSubmitLocations == {PortalUrl, PortalUrl \o <<"v","3">> \o DashboardPath}

\* EC.url_contains("/dashboard") within the timeout
UrlWait(d, o1) ==
  IF o1 \in {"fail", "crash"} THEN o1
  ELSE IF Contains(d.location, DashboardPath) THEN "ok" ELSE "timeout"

----------------------------------------------------------------------------
(* State before main() runs *)

NoDriver == [state |-> "none", location |-> <<>>, implicit |-> 0]

NoFlowOut == [status |-> "running", exc |-> NoExc]

NoLast == [op |-> "none", arg |-> PyNone, out |-> "none", pre |-> NoDriver,
           exc |-> NoExc, det |-> NoExc, logged |-> <<>>, added |-> <<>>]

Init ==
  /\ script \in {1, 2}
  /\ pc = "start"
  /\ driver = NoDriver
  /\ exc = NoExc
  /\ log = <<>>
  /\ trace = <<>>
  /\ flow = "NotStarted"
  /\ flowOut = NoFlowOut
  /\ detected = NoExc
  /\ mainOut = "running"
  /\ last = NoLast
  /\ nCalls = 0
  /\ elapsed = 0

\* the variables after a method call; `pending` is the exception that was
\* propagating when the call was made (in a finally clause), if any
Apply(r, pending) ==
  /\ driver' = r.driver
  /\ exc' = IF r.exc # NoExc THEN r.exc ELSE pending
  /\ log' = log \o r.log
  /\ trace' = trace \o r.trace
  /\ detected' = IF r.det # NoExc THEN r.det ELSE detected

\* WebDriverManager.__init__ / _initialize_driver(options)
initialize_driver(out) ==
  IF out = "ok"
  THEN Result([state |-> "live", location |-> BlankPage, implicit |-> 0], NoExc, NoExc,
              <<Info("WebDriverManager", "WebDriver initialized successfully.")>>,
              <<Call("webdriver.Chrome", out)>>)
  ELSE LET e == Err("WebDriverException", "webdriver.Chrome") IN
       Result(NoDriver, Reraise(e), e,
              <<Error("WebDriverManager", "Error initializing WebDriver: %s", e)>>,
              <<Call("webdriver.Chrome", out)>>)

\* the first statement of the try body of main
TryBody == IF script = 1 THEN "search" ELSE "login_open"

\* variant: the session is opened inside the try statement
MainStart_InsideTry ==
  /\ pc = "start"
  /\ \E out \in {"ok", "fail"} :
       LET r == initialize_driver(out)
           r2 == [r EXCEPT !.log = <<Info("Main", "Starting browser automation...")>> \o @]
       IN /\ Apply(r2, exc)
          /\ pc' = IF r.exc = NoExc THEN TryBody ELSE "main_except"
          /\ mainOut' = "running"
  /\ UNCHANGED <<script, flow, flowOut, last, nCalls, elapsed>>

\* main(), up to the try statement: the session is opened outside it
MainStart ==
  /\ pc = "start"
  /\ \E out \in {"ok", "fail"} :
       LET r == initialize_driver(out)
           r2 == [r EXCEPT !.log = <<Info("Main", "Starting browser automation...")>> \o @]
       IN /\ Apply(r2, exc)
          /\ pc' = IF r.exc = NoExc THEN TryBody ELSE "done"
          /\ mainOut' = IF r.exc = NoExc THEN "running" ELSE "raised"
  /\ UNCHANGED <<script, flow, flowOut, last, nCalls, elapsed>>

\* variant: each statement of the try body has its own try/except that logs
\* and goes on
TryStep_GoesOn(r, next) ==
  /\ Apply([r EXCEPT !.exc = NoExc], exc)
  /\ pc' = next
  /\ flowOut' = IF next = "main_finally" THEN [status |-> "returned", exc |-> NoExc]
                ELSE flowOut

\* a statement of the try body of main ended: go on, or enter the except clause
TryStep(r, next) ==
  /\ Apply(r, exc)
  /\ pc' = IF r.exc = NoExc THEN next ELSE "main_except"
  /\ flowOut' = IF r.exc # NoExc THEN [status |-> "raised", exc |-> r.exc]
                ELSE IF next = "main_finally" THEN [status |-> "returned", exc |-> NoExc]
                ELSE flowOut

\* script1 main: browser_automation.perform_google_search('OpenAI')
Search ==
  /\ pc = "search"
  /\ \E out \in Outcomes(driver) : TryStep(perform_google_search(driver, OpenAIQuery, out), "wait5")
  /\ UNCHANGED <<script, flow, mainOut, last, nCalls, elapsed>>

\* script1 main: driver_manager.wait(5)
WaitFive ==
  /\ pc = "wait5"
  /\ \E out \in Outcomes(driver) : TryStep(wait(driver, PyInt(5), out), "scroll")
  /\ UNCHANGED <<script, flow, mainOut, last, nCalls, elapsed>>

\* script1 main: browser_automation.scroll_to_bottom()
Scroll ==
  /\ pc = "scroll"
  /\ \E out \in Outcomes(driver) : TryStep(scroll_to_bottom(driver, out), "main_finally")
  /\ UNCHANGED <<script, flow, mainOut, last, nCalls, elapsed>>

\* variant: a step that failed is attempted again
LoginStep_Retries(r, next, reached) ==
  /\ Apply([r EXCEPT !.exc = NoExc], exc)
  /\ pc' = IF r.exc = NoExc THEN next ELSE pc
  /\ flow' = IF r.exc = NoExc THEN reached ELSE flow

\* variant: each step catches its own error and the flow goes on
LoginStep_GoesOn(r, next, reached) ==
  /\ Apply([r EXCEPT !.exc = NoExc], exc)
  /\ pc' = next
  /\ flow' = reached

\* a step of the try body of login_platonus ended: go on, or enter its except clause
LoginStep(r, next, reached) ==
  /\ Apply(r, exc)
  /\ pc' = IF r.exc = NoExc THEN next ELSE "login_except"
  /\ flow' = IF r.exc = NoExc THEN reached ELSE flow

\* variant: the identifier step is missing, the secret field comes first
LoginOpen_SkipsIdentifier ==
  /\ pc = "login_open"
  /\ \E out \in Outcomes(driver) :
       LoginStep(open_url(driver, PyStr(PortalUrl), out), "login_pw", "Navigated")
  /\ UNCHANGED <<script, flowOut, mainOut, last, nCalls, elapsed>>

\* login_platonus: self.driver_manager.open_url(url)
LoginOpen ==
  /\ pc = "login_open"
  /\ \E out \in Outcomes(driver) :
       LoginStep(open_url(driver, PyStr(PortalUrl), out), "login_id", "Navigated")
  /\ UNCHANGED <<script, flowOut, mainOut, last, nCalls, elapsed>>

\* the timeout handed to every WebDriverWait of login_platonus, in time units
WaitTimeout == 10

\* the positions of login_platonus that are inside a WebDriverWait(...).until
WaitPcs == {"login_id", "login_pw", "login_submit", "login_dash"}

\* until raises TimeoutException only once its timeout has elapsed
TimeoutDue(o1) == (o1 = "timeout") => (elapsed = WaitTimeout)

\* variant: the deadline is taken anew on every poll, so it never passes
WaitTick_NoDeadline ==
  /\ pc \in WaitPcs
  /\ elapsed' = IF elapsed + 1 < WaitTimeout THEN elapsed + 1 ELSE 0
  /\ UNCHANGED <<script, pc, driver, exc, log, trace, flow, flowOut, detected, mainOut,
                 last, nCalls>>

\* WebDriverWait(...).until: the condition does not hold yet and the timeout has
\* not elapsed, so the wait polls again one time unit later
WaitTick ==
  /\ pc \in WaitPcs
  /\ elapsed < WaitTimeout
  /\ elapsed' = elapsed + 1
  /\ UNCHANGED <<script, pc, driver, exc, log, trace, flow, flowOut, detected, mainOut,
                 last, nCalls>>

\* a wait of login_platonus, the action on its element and the logger.info after it
LoginWaitThen(waitCall, actCall, msg, o1, o2) ==
  LET r == WaitThen(driver, waitCall, actCall, o1, o2) IN
  IF r.exc = NoExc THEN [r EXCEPT !.log = <<Info("BrowserAutomation", msg)>>] ELSE r

\* login_platonus: until(presence "login_input").send_keys(login)
LoginIdentifier ==
  /\ pc = "login_id"
  /\ \E o1 \in UntilOutcomes(driver), o2 \in Outcomes(driver) :
       /\ TimeoutDue(o1)
       /\ LoginStep(LoginWaitThen("until login_input", "send_keys login", "Entered login.", o1, o2),
                    "login_pw", "IdentifierEntered")
  /\ elapsed' = 0
  /\ UNCHANGED <<script, flowOut, mainOut, last, nCalls>>

\* login_platonus: until(presence "pass_input").send_keys(password)
LoginSecret ==
  /\ pc = "login_pw"
  /\ \E o1 \in UntilOutcomes(driver), o2 \in Outcomes(driver) :
       /\ TimeoutDue(o1)
       /\ LoginStep(LoginWaitThen("until pass_input", "send_keys password", "Entered password.", o1, o2),
                    "login_submit", "SecretEntered")
  /\ elapsed' = 0
  /\ UNCHANGED <<script, flowOut, mainOut, last, nCalls>>

\* login_platonus: until(clickable "Submit1").click(); the browser then goes
\* where the portal sends it
LoginSubmit ==
  /\ pc = "login_submit"
  /\ \E o1 \in UntilOutcomes(driver), o2 \in Outcomes(driver), loc \in PostSubmitLocations :
       LET r == LoginWaitThen("until Submit1", "click", "Clicked login button.", o1, o2)
           r2 == IF r.exc = NoExc THEN [r EXCEPT !.driver.location = loc] ELSE r
       IN /\ TimeoutDue(o1)
          /\ LoginStep(r2, "login_dash", "Submitted")
  /\ elapsed' = 0
  /\ UNCHANGED <<script, flowOut, mainOut, last, nCalls>>

\* login_platonus: until(url_contains("/dashboard")), then the normal return
LoginDashboard ==
  /\ pc = "login_dash"
  /\ \E o \in Outcomes(driver) :
       LET o1 == UrlWait(driver, o)
           r == IF o1 = "ok"
                THEN Result(driver, NoExc, NoExc,
                            <<Info("BrowserAutomation", "Login successful, navigated to dashboard.")>>,
                            <<Call("until url_contains", o1)>>)
                ELSE Result(AfterCall(driver, o1), UntilError("until url_contains", o1),
                            UntilError("until url_contains", o1),
                            <<>>, <<Call("until url_contains", o1)>>)
       IN /\ TimeoutDue(o1)
          /\ LoginStep(r, "main_finally", "LoggedIn")
          /\ flowOut' = IF r.exc = NoExc THEN [status |-> "returned", exc |-> NoExc] ELSE flowOut
  /\ elapsed' = 0
  /\ UNCHANGED <<script, mainOut, last, nCalls>>

\* variant: the except clause raises a new exception in place of the caught one
LoginExcept_Wraps ==
  /\ pc = "login_except"
  /\ log' = log \o <<Error("BrowserAutomation", "Error logging in to Platonus: %s", exc)>>
  /\ exc' = Err("RuntimeError", "login_platonus")
  /\ pc' = "main_except"
  /\ flowOut' = [status |-> "raised", exc |-> exc']
  /\ UNCHANGED <<script, driver, trace, flow, detected, mainOut, last, nCalls, elapsed>>

\* variant: the except clause logs and does not re-raise
LoginExcept_Swallows ==
  /\ pc = "login_except"
  /\ log' = log \o <<Error("BrowserAutomation", "Error logging in to Platonus: %s", exc)>>
  /\ exc' = NoExc
  /\ pc' = "main_finally"
  /\ flowOut' = [status |-> "returned", exc |-> NoExc]
  /\ UNCHANGED <<script, driver, trace, flow, detected, mainOut, last, nCalls, elapsed>>

\* login_platonus: except Exception as e: logger.error(...); raise
LoginExcept ==
  /\ pc = "login_except"
  /\ log' = log \o <<Error("BrowserAutomation", "Error logging in to Platonus: %s", exc)>>
  /\ exc' = Reraise(exc)
  /\ pc' = IF exc' = NoExc THEN "main_finally" ELSE "main_except"
  /\ flowOut' = IF exc' = NoExc THEN [status |-> "returned", exc |-> NoExc]
                ELSE [status |-> "raised", exc |-> exc']
  /\ UNCHANGED <<script, driver, trace, flow, detected, mainOut, last, nCalls, elapsed>>

\* variant: the except clause of main shuts the session down and runs the
\* try body again
MainExcept_ShutsDownAndRetries ==
  /\ pc = "main_except"
  /\ \E out \in QuitOutcomes(driver) :
       Apply([quit_driver(driver, out) EXCEPT !.exc = NoExc], NoExc)
  /\ pc' = TryBody
  /\ UNCHANGED <<script, flow, flowOut, mainOut, last, nCalls, elapsed>>

\* variant: the except clause of main logs and re-raises
MainExcept_Reraises ==
  /\ pc = "main_except"
  /\ log' = log \o <<Error("Main", "An error occurred during browser automation: %s", exc)>>
  /\ pc' = "main_finally"
  /\ UNCHANGED <<script, driver, exc, trace, flow, flowOut, detected, mainOut, last, nCalls, elapsed>>

\* variant: the shutdown sits at the end of the try body instead of in a
\* finally clause, so a failed flow leaves main without it
MainExcept_NoShutdown ==
  /\ pc = "main_except"
  /\ log' = log \o <<Error("Main", "An error occurred during browser automation: %s", exc)>>
  /\ exc' = NoExc
  /\ pc' = "done"
  /\ mainOut' = "returned"
  /\ UNCHANGED <<script, driver, trace, flow, flowOut, detected, last, nCalls, elapsed>>

\* main: except Exception as e: logger.error(...)
MainExcept ==
  /\ pc = "main_except"
  /\ log' = log \o <<Error("Main", "An error occurred during browser automation: %s", exc)>>
  /\ exc' = NoExc
  /\ pc' = "main_finally"
  /\ UNCHANGED <<script, driver, trace, flow, flowOut, detected, mainOut, last, nCalls, elapsed>>

\* main: finally: driver_manager.quit_driver(); logger.info(...); an exception
\* of quit_driver, or one still pending from the try statement, leaves main
MainFinally ==
  /\ pc = "main_finally"
  /\ \E out \in QuitOutcomes(driver) :
       LET r == quit_driver(driver, out)
           r2 == IF r.exc = NoExc
                 THEN [r EXCEPT !.log = @ \o <<Info("Main", "Browser automation completed.")>>]
                 ELSE r
       IN /\ Apply(r2, exc)
          /\ mainOut' = IF exc' = NoExc THEN "returned" ELSE "raised"
  /\ pc' = "done"
  /\ UNCHANGED <<script, flow, flowOut, last, nCalls, elapsed>>

Next ==
  \/ MainStart
  \/ Search
  \/ WaitFive
  \/ Scroll
  \/ LoginOpen
  \/ WaitTick
  \/ LoginIdentifier
  \/ LoginSecret
  \/ LoginSubmit
  \/ LoginDashboard
  \/ LoginExcept
  \/ MainExcept
  \/ MainFinally

Spec == Init /\ [][Next]_vars

\* main() is a single thread that runs on: a step that can be taken is taken
SpecFair == Spec /\ WF_vars(Next)

----------------------------------------------------------------------------
(* A client of WebDriverManager: the session is open, the methods are      *)
(* called with any argument, in any order                                  *)

\* arguments a caller can hand to open_url
UrlInputs ==
  { PyStr(<<>>),
    PyStr(<<"n","o","t","-","a","-","u","r","l">>),
    PyStr(<<"f","t","p",":","/","/","a",".","i","o">>),
    PyStr(Http),
    PyStr(<<"h","t","t","p","x">>),
    PyStr(<<"h","t","t","p",":","/","/","a",".","i","o">>),
    PyStr(<<"h","t","t","p","s",":","/","/","e","x","a","m","p","l","e",".","c","o","m">>),
    PyInt(5),
    PyNone }

\* arguments a caller can hand to wait
WaitInputs ==
  { PyInt(0), PyInt(5), PyInt(-1), PyFloatMs(500), PyFloatMs(-500), PyBool(TRUE),
    PyStr(<<"5">>), PyNone }

InitApi ==
  /\ script \in {1, 2}
  /\ pc = "api"
  /\ driver = [state |-> "live", location |-> BlankPage, implicit |-> 0]
  /\ exc = NoExc
  /\ log = <<Info("WebDriverManager", "WebDriver initialized successfully.")>>
  /\ trace = <<Call("webdriver.Chrome", "ok")>>
  /\ flow = "NotStarted"
  /\ flowOut = NoFlowOut
  /\ detected = NoExc
  /\ mainOut = "running"
  /\ last = NoLast
  /\ nCalls = 0
  /\ elapsed = 0

\* one method call of the client and what it observed
ApiCall(op, arg, out, r) ==
  /\ pc = "api"
  /\ nCalls < MaxApiCalls
  /\ Apply(r, NoExc)
  /\ nCalls' = nCalls + 1
  /\ last' = [op |-> op, arg |-> arg,
              out |-> out,
              pre |-> driver, exc |-> r.exc, det |-> r.det,
              logged |-> r.log, added |-> r.trace]
  /\ UNCHANGED <<script, pc, flow, flowOut, mainOut, elapsed>>

ApiOpenUrl ==
  \E url \in UrlInputs, out \in Outcomes(driver) :
    ApiCall("open_url", url, out, open_url(driver, url, out))

ApiWait ==
  /\ script = 1
  /\ \E seconds \in WaitInputs, out \in Outcomes(driver) :
       ApiCall("wait", seconds, out, wait(driver, seconds, out))

ApiExecuteScript ==
  \E out \in Outcomes(driver) :
    ApiCall("execute_script", PyNone, out, execute_script(driver, out))

ApiQuitDriver ==
  \E out \in QuitOutcomes(driver) :
    ApiCall("quit_driver", PyNone, out, quit_driver(driver, out))

NextApi ==
  \/ ApiOpenUrl
  \/ ApiWait
  \/ ApiExecuteScript
  \/ ApiQuitDriver

SpecApi == InitApi /\ [][NextApi]_vars

\* both uses of the classes: main() of a script, or a client of the methods
SpecAll == (Init \/ InitApi) /\ [][Next \/ NextApi]_vars

----------------------------------------------------------------------------
(* Properties of main and of the login flow, checked under Spec *)

\* number of calls of `name` made so far
Count(name) == Cardinality({i \in DOMAIN trace : trace[i].call = name})

Failed(c) == c.out \in {"timeout", "fail", "crash"}

\* the calls login_platonus makes on the driver, in the order of its text
LoginCalls ==
  <<"driver.get", "until login_input", "send_keys login", "until pass_input",
    "send_keys password", "until Submit1", "click", "until url_contains">>

LoginCallSet == {LoginCalls[i] : i \in DOMAIN LoginCalls}

WaitCalls == {"until login_input", "until pass_input", "until Submit1", "until url_contains"}

IsOkWait(c) == c.call \in WaitCalls /\ c.out = "ok"

FourWaitsOk ==
  <<Call("until login_input", "ok"), Call("until pass_input", "ok"),
    Call("until Submit1", "ok"), Call("until url_contains", "ok")>>

TimedOutAt(w) == \E i \in DOMAIN trace : trace[i] = Call(w, "timeout")

\* C1: once the session is open, quit_driver is never invoked twice, and main
\* has invoked it exactly once when it ends, however the flow ended.
C1_ShutdownExactlyOnce ==
  /\ Count("quit_driver") <= 1
  /\ (pc = "done" /\ driver.state # "none") => Count("quit_driver") = 1
  /\ (pc # "done") => Count("quit_driver") = 0

\* main ended after the identifier wait timed out, and the shutdown was made
C1_Witness ==
  /\ script = 2 /\ pc = "done"
  /\ flowOut.status = "raised" /\ TimedOutAt("until login_input")
  /\ Count("quit_driver") = 1

\* C2: login_platonus returns without error exactly when the four waits
\* succeeded, in order; it is then in LoggedIn and the URL contains /dashboard.
C2_LoggedInIffFourWaits ==
  script = 2 =>
    /\ (flowOut.status = "returned") <=> (SelectSeq(trace, IsOkWait) = FourWaitsOk)
    /\ (flow = "LoggedIn") <=> (flowOut.status = "returned")
    /\ (flow = "LoggedIn") => Contains(driver.location, DashboardPath)

\* login_platonus returned normally
C2_Witness == script = 2 /\ flowOut.status = "returned" /\ flow = "LoggedIn"

\* C3: after a call of login_platonus failed, the flow makes no further call;
\* no identifier field means no secret typed and no click, no clickable submit
\* control means the flow is never Submitted or LoggedIn.
C3_NothingAfterFailure ==
  script = 2 =>
    /\ \A i, j \in DOMAIN trace :
         (i < j /\ trace[i].call \in LoginCallSet /\ Failed(trace[i]))
           => trace[j].call \notin LoginCallSet
    /\ (\E i \in DOMAIN trace : trace[i].call = "until login_input" /\ Failed(trace[i]))
         => Count("send_keys password") = 0 /\ Count("click") = 0
    /\ (\E i \in DOMAIN trace : trace[i].call = "until Submit1" /\ Failed(trace[i]))
         => flow \notin {"Submitted", "LoggedIn"} /\ Count("click") = 0

\* the submit control never became clickable and main has ended
C3_Witness ==
  script = 2 /\ pc = "done" /\ TimedOutAt("until Submit1") /\ flow = "SecretEntered"

----------------------------------------------------------------------------
(* Properties of the WebDriverManager methods, checked under SpecApi *)

Scheme == <<":", "/", "/">>

RecognizedSchemes == {Http, Http \o <<"s">>}

\* a non-empty URL that begins with a recognized scheme: scheme://rest
ValidUrl(v) ==
  /\ v.t = "str"
  /\ \E sch \in RecognizedSchemes :
       StartsWith(v.s, sch \o Scheme) /\ Len(v.s) > Len(sch \o Scheme)

\* the latest call reached the browser
Contacted(name) == \E i \in DOMAIN last.added : last.added[i].call = name

\* C4 as claimed: open_url with anything that is not a valid URL with a
\* recognized scheme raises the invalid-input error, never calls driver.get and
\* leaves the location as it was.
C4_InvalidUrlRejected ==
  (last.op = "open_url" /\ ~ValidUrl(last.arg)) =>
    /\ last.exc.type = "ValueError"
    /\ ~Contacted("driver.get")
    /\ driver.location = last.pre.location

\* C5: open_url on a live session with a valid URL of a recognized scheme and
\* no failure of the transport raises nothing and the location is that URL.
C5_ValidUrlOpens ==
  (last.op = "open_url" /\ last.pre.state = "live" /\ ValidUrl(last.arg) /\ last.out = "ok") =>
    /\ last.exc = NoExc
    /\ exc = NoExc
    /\ driver.location = last.arg.s
    /\ driver.state = "live"

\* open_url("https://example.com") on a fresh session has returned
C5_Witness ==
  /\ last.op = "open_url" /\ nCalls = 1 /\ last.exc = NoExc
  /\ last.arg = PyStr(<<"h","t","t","p","s",":","/","/","e","x","a","m","p","l","e",".","c","o","m">>)
  /\ driver.location = last.arg.s

\* a number that is not negative
NonNegativeNumber(v) == v.t \in {"int", "float", "bool"} /\ v.ms >= 0

\* C6 as claimed: wait succeeds for every non-negative number, and raises the
\* invalid-input error, without configuring the driver, for anything else.
C6_WaitAsClaimed ==
  last.op = "wait" =>
    /\ NonNegativeNumber(last.arg) => last.exc = NoExc
    /\ ~NonNegativeNumber(last.arg) =>
         last.exc.type = "ValueError" /\ ~Contacted("driver.implicitly_wait")

\* C6 amended: for an int or float (bool included) that is not negative, wait
\* calls driver.implicitly_wait and succeeds exactly when that call does; when
\* that call raises, its error reaches the caller. Anything else raises
\* ValueError and the driver is neither called nor changed.
C6_WaitAmended ==
  last.op = "wait" =>
    /\ (NonNegativeNumber(last.arg) /\ last.out = "ok") =>
         last.exc = NoExc /\ driver.implicit = last.arg.ms
    /\ (NonNegativeNumber(last.arg) /\ last.out # "ok") =>
         last.exc = Err("WebDriverException", "driver.implicitly_wait")
    /\ NonNegativeNumber(last.arg) => Contacted("driver.implicitly_wait")
    /\ ~NonNegativeNumber(last.arg) =>
         /\ last.exc.type = "ValueError"
         /\ ~Contacted("driver.implicitly_wait")
         /\ driver = last.pre

\* wait(0) has returned after wait(-1) was refused
C6_Witness ==
  /\ last.op = "wait" /\ last.arg = PyInt(0) /\ last.exc = NoExc
  /\ \E i \in DOMAIN log : log[i].e = Err("ValueError", "wait")

\* C7 as claimed: quit_driver on a session that was already shut down, or that
\* has failed, raises nothing.
C7_RepeatedQuitIsSafe ==
  (last.op = "quit_driver" /\ last.pre.state \in {"quit", "dead"}) => last.exc = NoExc

----------------------------------------------------------------------------
(* Error reporting, checked under Spec *)

ElementWaits == {"until login_input", "until pass_input", "until Submit1"}

\* the kinds of error a timed-out element wait is reported with
ElementTimeoutKinds == {UntilError(w, "timeout").type : w \in ElementWaits}

ManagerSites ==
  {"open_url", "driver.get", "wait", "driver.implicitly_wait", "driver.execute_script",
   "driver.quit", "webdriver.Chrome"}

\* errors that main does not catch: raised outside its try body
OutsideTry == {"driver.quit", "webdriver.Chrome"}

\* errors of script1's try body raised in a call main makes itself
DirectFromMain == {"wait", "driver.implicitly_wait"}

Logged(logger, e) ==
  \E i \in DOMAIN log : log[i].logger = logger /\ log[i].level = "ERROR" /\ log[i].e = e

\* C9 for the calls made by main() and by the flows
C9_InMain ==
  /\ (detected # NoExc /\ detected.site \in ManagerSites) => Logged("WebDriverManager", detected)
  /\ pc \in {"login_except", "main_except"} => (exc # NoExc /\ exc = detected)
  /\ (pc = "main_except" /\ detected.site \notin DirectFromMain)
       => Logged("BrowserAutomation", detected)
  /\ (detected # NoExc /\ detected.site \notin OutsideTry)
       => \/ pc = "login_except"
          \/ flowOut = [status |-> "raised", exc |-> detected]
  /\ (detected # NoExc /\ detected.site \in OutsideTry)
       => (pc = "done" /\ mainOut = "raised" /\ exc = detected)
  /\ (flowOut.status = "raised" /\ pc # "done") => flowOut.exc = detected
  /\ flowOut.status = "raised" => Logged(IF flowOut.exc.site \in DirectFromMain
                                         THEN "WebDriverManager" ELSE "BrowserAutomation",
                                         flowOut.exc)

\* C9: an error raised inside a WebDriverManager method or inside a flow is
\* logged by each of them it passes through and reaches the caller as the
\* error that was raised: nothing below main swallows or replaces it.
C9_LoggedAndPropagated ==
  /\ pc = "api" =>
       /\ last.exc = last.det /\ exc = last.det
       /\ last.det # NoExc =>
            /\ Len(last.logged) = 1
            /\ last.logged = <<Error("WebDriverManager", last.logged[1].msg, last.det)>>
       /\ last.det = NoExc => \A i \in DOMAIN last.logged : last.logged[i].level = "INFO"
  /\ pc # "api" => C9_InMain

\* a failure of driver.get inside open_url inside login_platonus has reached main
C9_Witness ==
  /\ script = 2 /\ pc = "main_except" /\ exc = Err("WebDriverException", "driver.get")
  /\ Logged("WebDriverManager", exc) /\ Logged("BrowserAutomation", exc)

\* C10: when the flow fails, main catches the error, logs its summary, and only
\* then shuts the session down; the error of the flow never leaves main.
C10_MainCatchesAndShutsDown ==
  /\ flowOut.status = "raised" => pc \in {"main_except", "main_finally", "done"}
  /\ (flowOut.status = "raised" /\ pc = "main_except") =>
       /\ exc = flowOut.exc
       /\ ~Logged("Main", flowOut.exc)
       /\ Count("quit_driver") = 0
  /\ (flowOut.status = "raised" /\ pc = "main_finally") =>
       /\ exc = NoExc
       /\ Logged("Main", flowOut.exc)
       /\ Count("quit_driver") = 0
  /\ (flowOut.status = "raised" /\ pc = "done") =>
       /\ Logged("Main", flowOut.exc)
       /\ Count("quit_driver") = 1
       /\ exc # flowOut.exc
       /\ mainOut = "raised" <=> exc = Err("WebDriverException", "driver.quit")
       /\ mainOut = "returned" <=> exc = NoExc

\* the search of script1 failed, main logged it, shut down and returned
C10_Witness ==
  /\ script = 1 /\ pc = "done" /\ mainOut = "returned"
  /\ flowOut = [status |-> "raised", exc |-> Err("WebDriverException", "driver.get")]
  /\ Logged("Main", flowOut.exc) /\ Count("quit_driver") = 1

----------------------------------------------------------------------------
(* Use of the session and of the steps, checked under Spec *)

\* the calls that use the session, other than the shutdown
SessionOps ==
  LoginCallSet \cup {"open_url", "wait", "execute_script", "driver.implicitly_wait",
                     "driver.execute_script"}

\* C11: once quit_driver has been invoked, main makes no further call that
\* uses the session: no navigation, implicit wait, script, element wait, typing
\* or click.
C11_NoUseAfterShutdown ==
  /\ \A i, j \in DOMAIN trace :
       (i < j /\ trace[i].call = "quit_driver") => trace[j].call \notin SessionOps
  /\ Count("quit_driver") > 0 => pc = "done"

\* the login flow used the session up to LoggedIn, then main shut it down
C11_Witness ==
  /\ script = 2 /\ pc = "done" /\ flow = "LoggedIn"
  /\ trace[Len(trace) - 1].call = "quit_driver"
  /\ Count("click") = 1

\* C12: login_platonus attempts the navigation and each of its four waits at
\* most once, and the first timeout ends the flow with that error: nothing is
\* attempted after it.
C12_NoRetry ==
  script = 2 =>
    /\ \A c \in LoginCallSet \cup {"open_url"} : Count(c) <= 1
    /\ \A w \in WaitCalls :
         TimedOutAt(w) =>
           /\ \A i, j \in DOMAIN trace :
                (i < j /\ trace[i] = Call(w, "timeout")) => trace[j].call \notin SessionOps
           /\ pc \in {"login_except", "main_except", "main_finally", "done"}
           /\ pc = "login_except" => exc = Err("TimeoutException", w)
           /\ pc # "login_except" => flowOut = [status |-> "raised", exc |-> Err("TimeoutException", w)]

\* the wait for the secret field timed out once and the flow ended with it
C12_Witness ==
  /\ script = 2 /\ TimedOutAt("until pass_input") /\ Count("until pass_input") = 1
  /\ flowOut.status = "raised" /\ flow = "IdentifierEntered"

\* the states of the login flow, in order
FlowOrder ==
  <<"NotStarted", "Navigated", "IdentifierEntered", "SecretEntered", "Submitted", "LoggedIn">>

Rank(f) == CHOOSE i \in DOMAIN FlowOrder : FlowOrder[i] = f

\* the call that, once it returned, puts the flow in each state after NotStarted
Reaching ==
  <<"driver.get", "send_keys login", "send_keys password", "click", "until url_contains">>

Returned(c) == \E i \in DOMAIN trace : trace[i] = Call(c, "ok")

\* every call of c in the trace comes after a call of b that returned
OnlyAfter(b, c) ==
  \A j \in DOMAIN trace :
    trace[j].call = c => \E i \in 1..(j - 1) : trace[i] = Call(b, "ok")

\* the flow is in the state of the last step that returned, and each step was
\* started only after the one before it returned
C13_InOrder ==
  script = 2 =>
    /\ \A k \in DOMAIN Reaching : Returned(Reaching[k]) <=> Rank(flow) >= k + 1
    /\ OnlyAfter("driver.get", "until login_input")
    /\ OnlyAfter("send_keys login", "until pass_input")
    /\ OnlyAfter("send_keys login", "send_keys password")
    /\ OnlyAfter("send_keys password", "until Submit1")
    /\ OnlyAfter("send_keys password", "click")
    /\ OnlyAfter("click", "until url_contains")

\* C13: the login flow moves only from one state to the next one of
\* NotStarted, Navigated, IdentifierEntered, SecretEntered, Submitted, LoggedIn,
\* never skipping and never going back; the secret is typed only after the
\* identifier, the click comes only after the secret, the dashboard-URL wait
\* only after the click.
C13_StrictlyLinear ==
  /\ [][flow' # flow => Rank(flow') = Rank(flow) + 1]_vars
  /\ []C13_InOrder

\* the form was submitted and the flow waits for the dashboard URL
C13_Witness ==
  /\ script = 2 /\ pc = "login_dash" /\ flow = "Submitted"
  /\ Returned("click") /\ Returned("send_keys password") /\ Returned("send_keys login")

----------------------------------------------------------------------------
(* Opening the session and the order of script1's main, checked under Spec *)

InitFailed == trace # <<>> /\ trace[1] = Call("webdriver.Chrome", "fail")

\* C15: when webdriver.Chrome raises in the constructor, main makes no flow
\* step and no shutdown call and ends with that error, which it never catches;
\* quit_driver is invoked only on a session that was opened.
C15_InitFailureLeavesMain ==
  /\ InitFailed =>
       /\ pc = "done" /\ mainOut = "raised"
       /\ exc = Err("WebDriverException", "webdriver.Chrome")
       /\ Logged("WebDriverManager", exc) /\ ~Logged("Main", exc)
       /\ trace = <<Call("webdriver.Chrome", "fail")>>
       /\ driver = NoDriver
       /\ flow = "NotStarted" /\ flowOut = NoFlowOut
  /\ Count("quit_driver") > 0 =>
       (trace[1] = Call("webdriver.Chrome", "ok") /\ driver.state # "none")
  /\ (pc \notin {"start", "done"} \/ flowOut.status # "running") =>
       trace[1] = Call("webdriver.Chrome", "ok")

\* the browser could not be started and main has ended
C15_Witness == InitFailed /\ pc = "done" /\ Count("quit_driver") = 0

\* the methods main of script1 calls in its try body, in order
Script1Order == <<"open_url", "wait", "execute_script">>

IsTryBodyCall(c) == c.out = "call" /\ c.call # "quit_driver"

\* the method calls of the try body made so far
TryBodyCalls == SelectSeq(trace, IsTryBodyCall)

\* C16: main of script1 calls the search, wait(5) and the scroll in that order,
\* each only after the one before it returned; after a failure none of the
\* later ones is called, and quit_driver is still called exactly once, last.
C16_Script1Order ==
  script = 1 =>
    /\ Len(TryBodyCalls) <= Len(Script1Order)
    /\ \A k \in DOMAIN TryBodyCalls : TryBodyCalls[k].call = Script1Order[k]
    /\ OnlyAfter("driver.get", "wait")
    /\ OnlyAfter("driver.implicitly_wait", "execute_script")
    /\ Returned("driver.implicitly_wait") => driver.implicit = 5000
    /\ \A i, j \in DOMAIN trace :
         (i < j /\ Failed(trace[i]) /\ trace[i].call # "webdriver.Chrome")
           => trace[j].call \in {"quit_driver", "driver.quit"}
    /\ (pc = "done" /\ ~InitFailed) =>
         /\ Count("quit_driver") = 1
         /\ trace[Len(trace) - 1].call = "quit_driver"
         /\ flowOut.status = "returned" <=> Returned("driver.execute_script")

\* wait(5) failed in script1: no scroll was made and the session was shut down
C16_Witness ==
  /\ script = 1 /\ pc = "done"
  /\ \E i \in DOMAIN trace : trace[i].call = "driver.implicitly_wait" /\ Failed(trace[i])
  /\ Count("execute_script") = 0 /\ Count("quit_driver") = 1

----------------------------------------------------------------------------
(* Termination, checked under SpecFair *)

FlowOver == flowOut.status \in {"returned", "raised"}

\* C14: every execution of the login flow ends, in LoggedIn or in a failure, no
\* wait lasting longer than its timeout, and the session is then shut down and
\* main ends.
C14_Terminates ==
  /\ [](elapsed <= WaitTimeout)
  /\ (script = 2 /\ pc = "login_open") ~> (FlowOver /\ (flow = "LoggedIn" <=> flowOut.status = "returned"))
  /\ FlowOver ~> (pc = "done" /\ Count("quit_driver") = 1)
  /\ <>(pc = "done")

\* the dashboard-URL wait ran into its timeout, the flow failed, main shut the
\* session down and returned
C14_Witness ==
  /\ script = 2 /\ pc = "done" /\ mainOut = "returned"
  /\ TimedOutAt("until url_contains") /\ flowOut.status = "raised"
  /\ trace[Len(trace)] = Call("driver.quit", "ok")

====
